---- MODULE Spec2Model ----
(***************************************************************************)
(* A model of the worker pool of internal/worker_pool (worker_pool.go):    *)
(* NewWorkerPool, WorkerPool.process, WorkerPool.Submit, WorkerPool.Stop,  *)
(* with the Go primitives they rest on (a buffered channel, a select, a    *)
(* sync.RWMutex, a sync.WaitGroup, a cancellable context) modelled by what *)
(* they do.                                                                *)
(***************************************************************************)
EXTENDS Integers, Sequences, FiniteSets

\* ---------------------------------------------------------------- bounds
MaxWorkers == 2      \* numOfWorkers ranges over 1..MaxWorkers
MaxQueueSize == 2    \* queueSize ranges over 0..MaxQueueSize
MaxTasks == 2        \* Submit calls made in one run
MaxStops == 2        \* Stop calls made in one run
NumCallers == 2      \* goroutines calling Submit and Stop
MaxDeficit == 1      \* an unvalidated numOfWorkers ranges from -MaxDeficit

Callers == 1..NumCallers
Tasks == 1..MaxTasks

\* ------------------------------------------------------- program constants
ErrPoolStopped == "ErrPoolStopped"
ErrQueueFull == "ErrQueueFull"
Nil == "nil"
NoWriter == 0
NoTask == 0
NoPanic == "none"

VARIABLES
    numOfWorkers,     \* NewWorkerPool's numOfWorkers
    queueSize,        \* NewWorkerPool's queueSize: cap(taskQueue)
    afterTaskHook,    \* TRUE when a hook was given (hook # nil)
    taskQueue,        \* the buffer of the channel: a sequence of task ids
    closed,           \* close(p.taskQueue) has happened
    isStopped,        \* p.isStopped
    ctxDone,          \* the derived context's Done channel is closed
    parentCancelled,  \* the context given to NewWorkerPool was cancelled
    workerWaitGroup,  \* the counter of p.workerWaitGroup
    mu,               \* p.mu: [writer: the Stop holding or awaiting it, readers]
    wpc,              \* each worker's position in its goroutine
    wtask,            \* the task a worker has received
    pc,               \* each caller's position in Submit or Stop
    ctask,            \* the task a caller is submitting
    cres,             \* the value the caller's call returns
    afterStop,        \* the caller's Submit started after a Stop had returned
    stopSnap,         \* the tasks accepted with nil before the caller's Stop began
    tstate,           \* what has happened to each task
    nilReturned,      \* the tasks whose Submit has returned nil
    acceptOrder,      \* the tasks in the order of their successful sends
    execOrder,        \* the tasks in the order their bodies started
    nextTask,         \* the next task id
    stopCalls,        \* Stop calls made
    stopReturned,     \* some Stop call has returned
    cancelCount,      \* calls of p.cancel()
    closeCount,       \* closes of p.taskQueue
    panicked,         \* the runtime panic the program died of
    hookCalls,        \* how often the hook was invoked after each task
    wsub,             \* the task a task body is submitting to its own pool
    wres              \* the value that Submit call of a task body returns

vars == <<numOfWorkers, queueSize, afterTaskHook, taskQueue, closed, isStopped,
          ctxDone, parentCancelled, workerWaitGroup, mu, wpc, wtask, pc, ctask,
          cres, afterStop, stopSnap, tstate, nilReturned, acceptOrder,
          execOrder, nextTask, stopCalls, stopReturned, cancelCount,
          closeCount, panicked, hookCalls, wsub, wres>>

config == <<numOfWorkers, queueSize, afterTaskHook>>
poolVars == <<taskQueue, closed, isStopped, ctxDone, workerWaitGroup>>
history == <<acceptOrder, execOrder, cancelCount, closeCount>>
reentry == <<wsub, wres>>

Workers == 1..numOfWorkers

\* A panic ends the program: no goroutine takes a step after it.
Alive == panicked = NoPanic

\* ---------------------------------------------------------------- helpers

ParkedOrSelecting == {w \in Workers : wpc[w] \in {"parked", "select"}}

ParkedOrBusy == {w \in Workers : wpc[w] \in {"parked", "task"}}

\* The workers blocked in the select of process, registered as receivers.
Parked == {w \in Workers : wpc[w] = "parked"}

\* Closing a channel a select waits on wakes every goroutine blocked in it:
\* each takes the case that woke it and, for both cases of process, returns.
WakeParked(p) == [w \in DOMAIN p |-> IF p[w] = "parked" THEN "returned" ELSE p[w]]

HasRoomOffByOne == Len(taskQueue) + 1 < queueSize

HasRoomOneTooMany == Len(taskQueue) <= queueSize

\* A send on a buffered channel does not block while the buffer has room.
HasRoom == Len(taskQueue) < queueSize

DequeueLast == taskQueue[Len(taskQueue)]

\* A receive takes the oldest element of the buffer.
Dequeue == Head(taskQueue)

RestKeep == taskQueue

RestLast == SubSeq(taskQueue, 1, Len(taskQueue) - 1)

Rest == Tail(taskQueue)

\* ------------------------------------------------------------------- Init
\* The state NewWorkerPool returns: numOfWorkers goroutines started, each
\* about to enter process, the wait group raised once per goroutine.
Init ==
    /\ numOfWorkers \in 1..MaxWorkers
    /\ queueSize \in 0..MaxQueueSize
    /\ afterTaskHook \in BOOLEAN
    /\ taskQueue = <<>>
    /\ closed = FALSE
    /\ isStopped = FALSE
    /\ ctxDone = FALSE
    /\ parentCancelled = FALSE
    /\ workerWaitGroup = numOfWorkers
    /\ mu = [writer |-> NoWriter, readers |-> {}]
    /\ wpc = [w \in 1..numOfWorkers |-> "select"]
    /\ wtask = [w \in 1..numOfWorkers |-> NoTask]
    /\ pc = [c \in Callers |-> "idle"]
    /\ ctask = [c \in Callers |-> NoTask]
    /\ cres = [c \in Callers |-> Nil]
    /\ afterStop = [c \in Callers |-> FALSE]
    /\ stopSnap = [c \in Callers |-> {}]
    /\ tstate = [t \in Tasks |-> "none"]
    /\ nilReturned = {}
    /\ acceptOrder = <<>>
    /\ execOrder = <<>>
    /\ nextTask = 1
    /\ stopCalls = 0
    /\ stopReturned = FALSE
    /\ cancelCount = 0
    /\ closeCount = 0
    /\ panicked = NoPanic
    /\ hookCalls = [t \in Tasks |-> 0]
    /\ wsub = [w \in 1..numOfWorkers |-> NoTask]
    /\ wres = [w \in 1..numOfWorkers |-> Nil]

\* The state NewWorkerPool returns for any numOfWorkers: the argument is not
\* examined, `for i := 0; i < numOfWorkers; i++` runs no iteration for a
\* count of zero or less, so no goroutine is started and the wait group stays
\* at zero.
InitAnyCount ==
    /\ numOfWorkers \in (0 - MaxDeficit)..MaxWorkers
    /\ queueSize \in 0..MaxQueueSize
    /\ afterTaskHook \in BOOLEAN
    /\ taskQueue = <<>>
    /\ closed = FALSE
    /\ isStopped = FALSE
    /\ ctxDone = FALSE
    /\ parentCancelled = FALSE
    /\ workerWaitGroup = IF numOfWorkers > 0 THEN numOfWorkers ELSE 0
    /\ mu = [writer |-> NoWriter, readers |-> {}]
    /\ wpc = [w \in 1..numOfWorkers |-> "select"]
    /\ wtask = [w \in 1..numOfWorkers |-> NoTask]
    /\ pc = [c \in Callers |-> "idle"]
    /\ ctask = [c \in Callers |-> NoTask]
    /\ cres = [c \in Callers |-> Nil]
    /\ afterStop = [c \in Callers |-> FALSE]
    /\ stopSnap = [c \in Callers |-> {}]
    /\ tstate = [t \in Tasks |-> "none"]
    /\ nilReturned = {}
    /\ acceptOrder = <<>>
    /\ execOrder = <<>>
    /\ nextTask = 1
    /\ stopCalls = 0
    /\ stopReturned = FALSE
    /\ cancelCount = 0
    /\ closeCount = 0
    /\ panicked = NoPanic
    /\ hookCalls = [t \in Tasks |-> 0]
    /\ wsub = [w \in 1..numOfWorkers |-> NoTask]
    /\ wres = [w \in 1..numOfWorkers |-> Nil]

\* ------------------------------------------------------------------ Submit

\* A caller calls Submit(task) and reaches p.mu.RLock().
CallSubmit(c) ==
    /\ Alive
    /\ pc[c] = "idle"
    /\ nextTask <= MaxTasks
    /\ pc' = [pc EXCEPT ![c] = "s_rlock"]
    /\ ctask' = [ctask EXCEPT ![c] = nextTask]
    /\ tstate' = [tstate EXCEPT ![nextTask] = "offered"]
    /\ afterStop' = [afterStop EXCEPT ![c] = stopReturned]
    /\ nextTask' = nextTask + 1
    /\ UNCHANGED <<config, reentry, hookCalls, poolVars, parentCancelled, mu, wpc, wtask, cres,
                   stopSnap, nilReturned, history, stopCalls, stopReturned,
                   panicked>>

SubmitRLockNoCheck(c) ==
    /\ Alive
    /\ pc[c] = "s_rlock"
    /\ mu.writer = NoWriter
    /\ mu' = [mu EXCEPT !.readers = @ \cup {c}]
    /\ pc' = [pc EXCEPT ![c] = "s_send"]
    /\ UNCHANGED <<config, reentry, hookCalls, poolVars, parentCancelled, wpc, wtask, ctask, cres,
                   afterStop, stopSnap, tstate, nilReturned, history, nextTask,
                   stopCalls, stopReturned, panicked>>

SubmitRLockCtxAware(c) ==
    /\ Alive
    /\ pc[c] = "s_rlock"
    /\ mu.writer = NoWriter
    /\ mu' = [mu EXCEPT !.readers = @ \cup {c}]
    /\ IF isStopped \/ ctxDone
       THEN /\ pc' = [pc EXCEPT ![c] = "s_ret"]
            /\ cres' = [cres EXCEPT ![c] = ErrPoolStopped]
            /\ tstate' = [tstate EXCEPT ![ctask[c]] = "rejStopped"]
       ELSE /\ pc' = [pc EXCEPT ![c] = "s_send"]
            /\ UNCHANGED <<cres, tstate>>
    /\ UNCHANGED <<config, reentry, hookCalls, poolVars, parentCancelled, wpc,
                   wtask, ctask, afterStop, stopSnap, nilReturned, history,
                   nextTask, stopCalls, stopReturned, panicked>>

\* p.mu.RLock() is granted (no writer holds or awaits the lock), and the
\* flag is read under it: `if p.isStopped { return ErrPoolStopped }`.
SubmitRLock(c) ==
    /\ Alive
    /\ pc[c] = "s_rlock"
    /\ mu.writer = NoWriter
    /\ mu' = [mu EXCEPT !.readers = @ \cup {c}]
    /\ IF isStopped
       THEN /\ pc' = [pc EXCEPT ![c] = "s_ret"]
            /\ cres' = [cres EXCEPT ![c] = ErrPoolStopped]
            /\ tstate' = [tstate EXCEPT ![ctask[c]] = "rejStopped"]
       ELSE /\ pc' = [pc EXCEPT ![c] = "s_send"]
            /\ UNCHANGED <<cres, tstate>>
    /\ UNCHANGED <<config, reentry, hookCalls, poolVars, parentCancelled, wpc, wtask, ctask,
                   afterStop, stopSnap, nilReturned, history, nextTask,
                   stopCalls, stopReturned, panicked>>

SubmitSendKeepsRejected(c) ==
    /\ Alive
    /\ pc[c] = "s_send"
    /\ IF closed
       THEN /\ panicked' = "send on closed channel"
            /\ UNCHANGED <<taskQueue, wpc, wtask, pc, cres, tstate,
                           acceptOrder, execOrder>>
       ELSE /\ UNCHANGED panicked
            /\ pc' = [pc EXCEPT ![c] = "s_ret"]
            /\ IF Parked # {}
               THEN \E w \in Parked :
                       /\ wpc' = [wpc EXCEPT ![w] = "task"]
                       /\ wtask' = [wtask EXCEPT ![w] = ctask[c]]
                       /\ tstate' = [tstate EXCEPT ![ctask[c]] = "running"]
                       /\ acceptOrder' = Append(acceptOrder, ctask[c])
                       /\ execOrder' = Append(execOrder, ctask[c])
                       /\ cres' = [cres EXCEPT ![c] = Nil]
                       /\ UNCHANGED taskQueue
               ELSE IF HasRoom
               THEN /\ taskQueue' = Append(taskQueue, ctask[c])
                    /\ tstate' = [tstate EXCEPT ![ctask[c]] = "queued"]
                    /\ acceptOrder' = Append(acceptOrder, ctask[c])
                    /\ cres' = [cres EXCEPT ![c] = Nil]
                    /\ UNCHANGED <<wpc, wtask, execOrder>>
               ELSE /\ cres' = [cres EXCEPT ![c] = ErrQueueFull]
                    /\ tstate' = [tstate EXCEPT ![ctask[c]] = "rejFull"]
                    /\ taskQueue' = Append(taskQueue, ctask[c])
                    /\ UNCHANGED <<wpc, wtask, acceptOrder, execOrder>>
    /\ UNCHANGED <<config, reentry, hookCalls, closed, isStopped, ctxDone, parentCancelled,
                   workerWaitGroup, mu, ctask, afterStop, stopSnap, nilReturned,
                   cancelCount, closeCount, nextTask, stopCalls, stopReturned>>

\* `select { case p.taskQueue <- task: return nil; default: return ErrQueueFull }`
\* A send on a closed channel panics. A receiver blocked in its select is
\* handed the task directly; otherwise the task goes to the buffer when it
\* has room; otherwise the default case is taken.
SubmitSend(c) ==
    /\ Alive
    /\ pc[c] = "s_send"
    /\ IF closed
       THEN /\ panicked' = "send on closed channel"
            /\ UNCHANGED <<taskQueue, wpc, wtask, pc, cres, tstate,
                           acceptOrder, execOrder>>
       ELSE /\ UNCHANGED panicked
            /\ pc' = [pc EXCEPT ![c] = "s_ret"]
            /\ IF Parked # {}
               THEN \E w \in Parked :
                       /\ wpc' = [wpc EXCEPT ![w] = "task"]
                       /\ wtask' = [wtask EXCEPT ![w] = ctask[c]]
                       /\ tstate' = [tstate EXCEPT ![ctask[c]] = "running"]
                       /\ acceptOrder' = Append(acceptOrder, ctask[c])
                       /\ execOrder' = Append(execOrder, ctask[c])
                       /\ cres' = [cres EXCEPT ![c] = Nil]
                       /\ UNCHANGED taskQueue
               ELSE IF HasRoom
               THEN /\ taskQueue' = Append(taskQueue, ctask[c])
                    /\ tstate' = [tstate EXCEPT ![ctask[c]] = "queued"]
                    /\ acceptOrder' = Append(acceptOrder, ctask[c])
                    /\ cres' = [cres EXCEPT ![c] = Nil]
                    /\ UNCHANGED <<wpc, wtask, execOrder>>
               ELSE /\ cres' = [cres EXCEPT ![c] = ErrQueueFull]
                    /\ tstate' = [tstate EXCEPT ![ctask[c]] = "rejFull"]
                    /\ UNCHANGED <<taskQueue, wpc, wtask, acceptOrder, execOrder>>
    /\ UNCHANGED <<config, reentry, hookCalls, closed, isStopped, ctxDone, parentCancelled,
                   workerWaitGroup, mu, ctask, afterStop, stopSnap, nilReturned,
                   cancelCount, closeCount, nextTask, stopCalls, stopReturned>>

\* The deferred p.mu.RUnlock() runs and Submit returns cres[c].
SubmitReturn(c) ==
    /\ Alive
    /\ pc[c] = "s_ret"
    /\ mu' = [mu EXCEPT !.readers = @ \ {c}]
    /\ pc' = [pc EXCEPT ![c] = "idle"]
    /\ nilReturned' = IF cres[c] = Nil THEN nilReturned \cup {ctask[c]}
                      ELSE nilReturned
    /\ ctask' = [ctask EXCEPT ![c] = NoTask]
    /\ cres' = [cres EXCEPT ![c] = Nil]
    /\ afterStop' = [afterStop EXCEPT ![c] = FALSE]
    /\ UNCHANGED <<config, reentry, hookCalls, poolVars, parentCancelled, wpc, wtask, stopSnap,
                   tstate, history, nextTask, stopCalls, stopReturned,
                   panicked>>

\* -------------------------------------------------------------------- Stop

\* A caller calls Stop() and reaches p.mu.Lock().
CallStop(c) ==
    /\ Alive
    /\ pc[c] = "idle"
    /\ stopCalls < MaxStops
    /\ pc' = [pc EXCEPT ![c] = "t_lock"]
    /\ stopSnap' = [stopSnap EXCEPT ![c] = nilReturned]
    /\ stopCalls' = stopCalls + 1
    /\ UNCHANGED <<config, reentry, hookCalls, poolVars, parentCancelled, mu, wpc, wtask, ctask,
                   cres, afterStop, tstate, nilReturned, history, nextTask,
                   stopReturned, panicked>>

\* p.mu.Lock(), first half: the writer is announced, which keeps every new
\* RLock (and every other Lock) waiting.
StopLock(c) ==
    /\ Alive
    /\ pc[c] = "t_lock"
    /\ mu.writer = NoWriter
    /\ mu' = [mu EXCEPT !.writer = c]
    /\ pc' = [pc EXCEPT ![c] = "t_pending"]
    /\ UNCHANGED <<config, reentry, hookCalls, poolVars, parentCancelled, wpc, wtask, ctask, cres,
                   afterStop, stopSnap, tstate, nilReturned, history, nextTask,
                   stopCalls, stopReturned, panicked>>

StopAcquireNoCheck(c) ==
    /\ Alive
    /\ pc[c] = "t_pending"
    /\ mu.readers = {}
    /\ pc' = [pc EXCEPT ![c] = "t_cancel"]
    /\ isStopped' = TRUE
    /\ cres' = [cres EXCEPT ![c] = Nil]
    /\ UNCHANGED <<config, reentry, hookCalls, taskQueue, closed, ctxDone, workerWaitGroup,
                   parentCancelled, mu, wpc, wtask, ctask, afterStop, stopSnap,
                   tstate, nilReturned, history, nextTask, stopCalls,
                   stopReturned, panicked>>

StopAcquireNoExclusion(c) ==
    /\ Alive
    /\ pc[c] = "t_pending"
    /\ cres' = [cres EXCEPT ![c] = Nil]
    /\ IF isStopped
       THEN /\ pc' = [pc EXCEPT ![c] = "t_ret"]
            /\ UNCHANGED isStopped
       ELSE /\ pc' = [pc EXCEPT ![c] = "t_cancel"]
            /\ isStopped' = TRUE
    /\ UNCHANGED <<config, reentry, hookCalls, taskQueue, closed, ctxDone,
                   workerWaitGroup, parentCancelled, mu, wpc, wtask, ctask,
                   afterStop, stopSnap, tstate, nilReturned, history, nextTask,
                   stopCalls, stopReturned, panicked>>

\* p.mu.Lock(), second half: the readers have left and the lock is held;
\* `if p.isStopped { return nil }`, else `p.isStopped = true`.
StopAcquire(c) ==
    /\ Alive
    /\ pc[c] = "t_pending"
    /\ mu.readers = {}
    /\ cres' = [cres EXCEPT ![c] = Nil]
    /\ IF isStopped
       THEN /\ pc' = [pc EXCEPT ![c] = "t_ret"]
            /\ UNCHANGED isStopped
       ELSE /\ pc' = [pc EXCEPT ![c] = "t_cancel"]
            /\ isStopped' = TRUE
    /\ UNCHANGED <<config, reentry, hookCalls, taskQueue, closed, ctxDone, workerWaitGroup,
                   parentCancelled, mu, wpc, wtask, ctask, afterStop, stopSnap,
                   tstate, nilReturned, history, nextTask, stopCalls,
                   stopReturned, panicked>>

\* p.cancel(): the derived context is done; the workers blocked in select
\* wake on ctx.Done() and return from process.
StopCancel(c) ==
    /\ Alive
    /\ pc[c] = "t_cancel"
    /\ pc' = [pc EXCEPT ![c] = "t_close"]
    /\ ctxDone' = TRUE
    /\ wpc' = WakeParked(wpc)
    /\ cancelCount' = cancelCount + 1
    /\ UNCHANGED <<config, reentry, hookCalls, taskQueue, closed, isStopped, workerWaitGroup,
                   parentCancelled, mu, wtask, ctask, cres, afterStop, stopSnap,
                   tstate, nilReturned, acceptOrder, execOrder, closeCount,
                   nextTask, stopCalls, stopReturned, panicked>>

\* close(p.taskQueue): closing a closed channel panics; the buffered tasks
\* stay readable; the workers blocked in select wake with ok = false.
StopClose(c) ==
    /\ Alive
    /\ pc[c] = "t_close"
    /\ IF closed
       THEN /\ panicked' = "close of closed channel"
            /\ UNCHANGED <<pc, closed, wpc, closeCount>>
       ELSE /\ pc' = [pc EXCEPT ![c] = "t_wait"]
            /\ closed' = TRUE
            /\ wpc' = WakeParked(wpc)
            /\ closeCount' = closeCount + 1
            /\ UNCHANGED panicked
    /\ UNCHANGED <<config, reentry, hookCalls, taskQueue, isStopped, ctxDone, workerWaitGroup,
                   parentCancelled, mu, wtask, ctask, cres, afterStop, stopSnap,
                   tstate, nilReturned, acceptOrder, execOrder, cancelCount,
                   nextTask, stopCalls, stopReturned>>

StopWaitNoBarrier(c) ==
    /\ Alive
    /\ pc[c] = "t_wait"
    /\ pc' = [pc EXCEPT ![c] = "t_ret"]
    /\ UNCHANGED <<config, reentry, hookCalls, poolVars, parentCancelled, mu, wpc, wtask, ctask,
                   cres, afterStop, stopSnap, tstate, nilReturned, history,
                   nextTask, stopCalls, stopReturned, panicked>>

\* p.workerWaitGroup.Wait() returns once the counter is zero.
StopWait(c) ==
    /\ Alive
    /\ pc[c] = "t_wait"
    /\ workerWaitGroup = 0
    /\ pc' = [pc EXCEPT ![c] = "t_ret"]
    /\ UNCHANGED <<config, reentry, hookCalls, poolVars, parentCancelled, mu, wpc, wtask, ctask,
                   cres, afterStop, stopSnap, tstate, nilReturned, history,
                   nextTask, stopCalls, stopReturned, panicked>>

StopReturnReopens(c) ==
    /\ Alive
    /\ pc[c] = "t_ret"
    /\ mu' = [mu EXCEPT !.writer = NoWriter]
    /\ pc' = [pc EXCEPT ![c] = "idle"]
    /\ stopReturned' = TRUE
    /\ stopSnap' = [stopSnap EXCEPT ![c] = {}]
    /\ isStopped' = FALSE
    /\ UNCHANGED <<config, reentry, hookCalls, taskQueue, closed, ctxDone,
                   workerWaitGroup, parentCancelled, wpc, wtask, ctask, cres,
                   afterStop, tstate, nilReturned, history, nextTask,
                   stopCalls, panicked>>

\* The deferred p.mu.Unlock() runs and Stop returns nil.
StopReturn(c) ==
    /\ Alive
    /\ pc[c] = "t_ret"
    /\ mu' = [mu EXCEPT !.writer = NoWriter]
    /\ pc' = [pc EXCEPT ![c] = "idle"]
    /\ stopReturned' = TRUE
    /\ stopSnap' = [stopSnap EXCEPT ![c] = {}]
    /\ UNCHANGED <<config, reentry, hookCalls, poolVars, parentCancelled, wpc, wtask, ctask, cres,
                   afterStop, tstate, nilReturned, history, nextTask,
                   stopCalls, panicked>>

\* ----------------------------------------------------------------- process

\* `case <-ctx.Done(): return`: taken whenever the context is done, whatever
\* the queue holds (select picks among its ready cases at random).
processCtxDone(w) ==
    /\ Alive
    /\ wpc[w] = "select"
    /\ ctxDone
    /\ wpc' = [wpc EXCEPT ![w] = "returned"]
    /\ UNCHANGED <<config, reentry, hookCalls, poolVars, parentCancelled, mu, wtask, pc, ctask,
                   cres, afterStop, stopSnap, tstate, nilReturned, history,
                   nextTask, stopCalls, stopReturned, panicked>>

processReceiveLast(w) ==
    /\ Alive
    /\ wpc[w] = "select"
    /\ taskQueue # <<>>
    /\ wpc' = [wpc EXCEPT ![w] = "task"]
    /\ wtask' = [wtask EXCEPT ![w] = DequeueLast]
    /\ taskQueue' = RestLast
    /\ tstate' = [tstate EXCEPT ![DequeueLast] = "running"]
    /\ execOrder' = Append(execOrder, DequeueLast)
    /\ UNCHANGED <<config, reentry, hookCalls, closed, isStopped, ctxDone, workerWaitGroup,
                   parentCancelled, mu, pc, ctask, cres, afterStop, stopSnap,
                   nilReturned, acceptOrder, cancelCount, closeCount, nextTask,
                   stopCalls, stopReturned, panicked>>

\* `case task, ok := <-p.taskQueue` with a task in the buffer (the channel
\* open or closed): ok is true and task() starts.
processReceive(w) ==
    /\ Alive
    /\ wpc[w] = "select"
    /\ taskQueue # <<>>
    /\ wpc' = [wpc EXCEPT ![w] = "task"]
    /\ wtask' = [wtask EXCEPT ![w] = Dequeue]
    /\ taskQueue' = Rest
    /\ tstate' = [tstate EXCEPT ![Dequeue] = "running"]
    /\ execOrder' = Append(execOrder, Dequeue)
    /\ UNCHANGED <<config, reentry, hookCalls, closed, isStopped, ctxDone, workerWaitGroup,
                   parentCancelled, mu, pc, ctask, cres, afterStop, stopSnap,
                   nilReturned, acceptOrder, cancelCount, closeCount, nextTask,
                   stopCalls, stopReturned, panicked>>

\* `case task, ok := <-p.taskQueue` on a closed, drained channel:
\* `if !ok { return }`.
processReceiveClosed(w) ==
    /\ Alive
    /\ wpc[w] = "select"
    /\ taskQueue = <<>>
    /\ closed
    /\ wpc' = [wpc EXCEPT ![w] = "returned"]
    /\ UNCHANGED <<config, reentry, hookCalls, poolVars, parentCancelled, mu, wtask, pc, ctask,
                   cres, afterStop, stopSnap, tstate, nilReturned, history,
                   nextTask, stopCalls, stopReturned, panicked>>

processParkReturns(w) ==
    /\ Alive
    /\ wpc[w] = "select"
    /\ ~ctxDone
    /\ taskQueue = <<>>
    /\ ~closed
    /\ wpc' = [wpc EXCEPT ![w] = "returned"]
    /\ UNCHANGED <<config, reentry, hookCalls, poolVars, parentCancelled, mu,
                   wtask, pc, ctask, cres, afterStop, stopSnap, tstate,
                   nilReturned, history, nextTask, stopCalls, stopReturned,
                   panicked>>

\* No case of the select is ready: the goroutine blocks, registered on
\* ctx.Done() and on the channel.
processPark(w) ==
    /\ Alive
    /\ wpc[w] = "select"
    /\ ~ctxDone
    /\ taskQueue = <<>>
    /\ ~closed
    /\ wpc' = [wpc EXCEPT ![w] = "parked"]
    /\ UNCHANGED <<config, reentry, hookCalls, poolVars, parentCancelled, mu, wtask, pc, ctask,
                   cres, afterStop, stopSnap, tstate, nilReturned, history,
                   nextTask, stopCalls, stopReturned, panicked>>

processTaskDoneNoHook(w) ==
    /\ Alive
    /\ wpc[w] = "task"
    /\ wpc' = [wpc EXCEPT ![w] = "select"]
    /\ tstate' = [tstate EXCEPT ![wtask[w]] = "done"]
    /\ wtask' = [wtask EXCEPT ![w] = NoTask]
    /\ UNCHANGED <<config, reentry, hookCalls, poolVars, parentCancelled, mu,
                   pc, ctask, cres, afterStop, stopSnap, nilReturned, history,
                   nextTask, stopCalls, stopReturned, panicked>>

\* task() returns: `if p.afterTaskHook != nil { p.afterTaskHook() }`, else
\* the loop goes back to the select.
processTaskDone(w) ==
    /\ Alive
    /\ wpc[w] = "task"
    /\ IF afterTaskHook
       THEN /\ wpc' = [wpc EXCEPT ![w] = "hook"]
            /\ tstate' = [tstate EXCEPT ![wtask[w]] = "hook"]
            /\ hookCalls' = [hookCalls EXCEPT ![wtask[w]] = @ + 1]
            /\ UNCHANGED wtask
       ELSE /\ wpc' = [wpc EXCEPT ![w] = "select"]
            /\ tstate' = [tstate EXCEPT ![wtask[w]] = "done"]
            /\ wtask' = [wtask EXCEPT ![w] = NoTask]
            /\ UNCHANGED hookCalls
    /\ UNCHANGED <<config, reentry, poolVars, parentCancelled, mu, pc, ctask, cres,
                   afterStop, stopSnap, nilReturned, history, nextTask,
                   stopCalls, stopReturned, panicked>>

\* p.afterTaskHook() returns and the loop goes back to the select.
processHookDone(w) ==
    /\ Alive
    /\ wpc[w] = "hook"
    /\ wpc' = [wpc EXCEPT ![w] = "select"]
    /\ tstate' = [tstate EXCEPT ![wtask[w]] = "done"]
    /\ wtask' = [wtask EXCEPT ![w] = NoTask]
    /\ UNCHANGED <<config, reentry, hookCalls, poolVars, parentCancelled, mu, pc, ctask, cres,
                   afterStop, stopSnap, nilReturned, history, nextTask,
                   stopCalls, stopReturned, panicked>>

WorkerDoneTwice(w) ==
    /\ Alive
    /\ wpc[w] = "returned"
    /\ wpc' = [wpc EXCEPT ![w] = "exited"]
    /\ workerWaitGroup' = workerWaitGroup - 2
    /\ UNCHANGED <<config, reentry, hookCalls, taskQueue, closed, isStopped,
                   ctxDone, parentCancelled, mu, wtask, pc, ctask, cres,
                   afterStop, stopSnap, tstate, nilReturned, history,
                   nextTask, stopCalls, stopReturned, panicked>>

WorkerDoneLost(w) ==
    /\ Alive
    /\ wpc[w] = "returned"
    /\ wpc' = [wpc EXCEPT ![w] = "exited"]
    /\ UNCHANGED <<config, reentry, hookCalls, poolVars, parentCancelled, mu, wtask, pc, ctask,
                   cres, afterStop, stopSnap, tstate, nilReturned, history,
                   nextTask, stopCalls, stopReturned, panicked>>

\* process has returned: `defer wp.workerWaitGroup.Done()` runs and the
\* goroutine ends.
WorkerDone(w) ==
    /\ Alive
    /\ wpc[w] = "returned"
    /\ wpc' = [wpc EXCEPT ![w] = "exited"]
    /\ workerWaitGroup' = workerWaitGroup - 1
    /\ UNCHANGED <<config, reentry, hookCalls, taskQueue, closed, isStopped, ctxDone,
                   parentCancelled, mu, wtask, pc, ctask, cres, afterStop,
                   stopSnap, tstate, nilReturned, history, nextTask, stopCalls,
                   stopReturned, panicked>>

\* ------------------------------------------- a task body that calls Submit

\* The name under which worker w holds p.mu as a reader.
WorkerReader(w) == 0 - w

\* task() (line 59) calls Submit on the pool that runs it and reaches
\* p.mu.RLock().
taskCallsSubmit(w) ==
    /\ Alive
    /\ wpc[w] = "task"
    /\ nextTask <= MaxTasks
    /\ wpc' = [wpc EXCEPT ![w] = "in_rlock"]
    /\ wsub' = [wsub EXCEPT ![w] = nextTask]
    /\ tstate' = [tstate EXCEPT ![nextTask] = "offered"]
    /\ nextTask' = nextTask + 1
    /\ UNCHANGED <<config, hookCalls, wres, poolVars, parentCancelled, mu,
                   wtask, pc, ctask, cres, afterStop, stopSnap, nilReturned,
                   history, stopCalls, stopReturned, panicked>>

\* Submit called by a task body: p.mu.RLock() and the check of the flag.
taskSubmitRLock(w) ==
    /\ Alive
    /\ wpc[w] = "in_rlock"
    /\ mu.writer = NoWriter
    /\ mu' = [mu EXCEPT !.readers = @ \cup {WorkerReader(w)}]
    /\ IF isStopped
       THEN /\ wpc' = [wpc EXCEPT ![w] = "in_ret"]
            /\ wres' = [wres EXCEPT ![w] = ErrPoolStopped]
            /\ tstate' = [tstate EXCEPT ![wsub[w]] = "rejStopped"]
       ELSE /\ wpc' = [wpc EXCEPT ![w] = "in_send"]
            /\ UNCHANGED <<wres, tstate>>
    /\ UNCHANGED <<config, hookCalls, wsub, poolVars, parentCancelled, wtask,
                   pc, ctask, cres, afterStop, stopSnap, nilReturned, history,
                   nextTask, stopCalls, stopReturned, panicked>>

\* Submit called by a task body: the non-blocking send.
taskSubmitSend(w) ==
    /\ Alive
    /\ wpc[w] = "in_send"
    /\ IF closed
       THEN /\ panicked' = "send on closed channel"
            /\ UNCHANGED <<taskQueue, wpc, wtask, wres, tstate, acceptOrder,
                           execOrder>>
       ELSE /\ UNCHANGED panicked
            /\ IF Parked # {}
               THEN \E v \in Parked :
                       /\ wpc' = [wpc EXCEPT ![w] = "in_ret", ![v] = "task"]
                       /\ wtask' = [wtask EXCEPT ![v] = wsub[w]]
                       /\ tstate' = [tstate EXCEPT ![wsub[w]] = "running"]
                       /\ acceptOrder' = Append(acceptOrder, wsub[w])
                       /\ execOrder' = Append(execOrder, wsub[w])
                       /\ wres' = [wres EXCEPT ![w] = Nil]
                       /\ UNCHANGED taskQueue
               ELSE IF HasRoom
               THEN /\ wpc' = [wpc EXCEPT ![w] = "in_ret"]
                    /\ taskQueue' = Append(taskQueue, wsub[w])
                    /\ tstate' = [tstate EXCEPT ![wsub[w]] = "queued"]
                    /\ acceptOrder' = Append(acceptOrder, wsub[w])
                    /\ wres' = [wres EXCEPT ![w] = Nil]
                    /\ UNCHANGED <<wtask, execOrder>>
               ELSE /\ wpc' = [wpc EXCEPT ![w] = "in_ret"]
                    /\ wres' = [wres EXCEPT ![w] = ErrQueueFull]
                    /\ tstate' = [tstate EXCEPT ![wsub[w]] = "rejFull"]
                    /\ UNCHANGED <<taskQueue, wtask, acceptOrder, execOrder>>
    /\ UNCHANGED <<config, hookCalls, wsub, closed, isStopped, ctxDone,
                   parentCancelled, workerWaitGroup, mu, pc, ctask, cres,
                   afterStop, stopSnap, nilReturned, cancelCount, closeCount,
                   nextTask, stopCalls, stopReturned>>

\* Submit called by a task body: the deferred RUnlock and the return into
\* the body, which goes on.
taskSubmitReturn(w) ==
    /\ Alive
    /\ wpc[w] = "in_ret"
    /\ mu' = [mu EXCEPT !.readers = @ \ {WorkerReader(w)}]
    /\ wpc' = [wpc EXCEPT ![w] = "task"]
    /\ nilReturned' = IF wres[w] = Nil THEN nilReturned \cup {wsub[w]}
                      ELSE nilReturned
    /\ wsub' = [wsub EXCEPT ![w] = NoTask]
    /\ wres' = [wres EXCEPT ![w] = Nil]
    /\ UNCHANGED <<config, hookCalls, poolVars, parentCancelled, wtask, pc,
                   ctask, cres, afterStop, stopSnap, tstate, history, nextTask,
                   stopCalls, stopReturned, panicked>>

\* ------------------------------------------------------------- environment

\* The owner of the context given to NewWorkerPool cancels it: the derived
\* context is done too.
ParentCancel ==
    /\ Alive
    /\ ~parentCancelled
    /\ parentCancelled' = TRUE
    /\ ctxDone' = TRUE
    /\ wpc' = WakeParked(wpc)
    /\ UNCHANGED <<config, reentry, hookCalls, taskQueue, closed, isStopped,
                   workerWaitGroup, mu, wtask, pc, ctask, cres, afterStop,
                   stopSnap, tstate, nilReturned, history, nextTask,
                   stopCalls, stopReturned, panicked>>

\* -------------------------------------------------------------------- Next

CallerStep(c) ==
    \/ SubmitRLock(c)
    \/ SubmitSend(c)
    \/ SubmitReturn(c)
    \/ StopLock(c)
    \/ StopAcquire(c)
    \/ StopCancel(c)
    \/ StopClose(c)
    \/ StopWait(c)
    \/ StopReturn(c)

WorkerStep(w) ==
    \/ processCtxDone(w)
    \/ processReceive(w)
    \/ processReceiveClosed(w)
    \/ processPark(w)
    \/ processTaskDone(w)
    \/ processHookDone(w)
    \/ WorkerDone(w)

Next ==
    \/ \E c \in Callers : CallSubmit(c)
    \/ \E c \in Callers : SubmitRLock(c)
    \/ \E c \in Callers : SubmitSend(c)
    \/ \E c \in Callers : SubmitReturn(c)
    \/ \E c \in Callers : CallStop(c)
    \/ \E c \in Callers : StopLock(c)
    \/ \E c \in Callers : StopAcquire(c)
    \/ \E c \in Callers : StopCancel(c)
    \/ \E c \in Callers : StopClose(c)
    \/ \E c \in Callers : StopWait(c)
    \/ \E c \in Callers : StopReturn(c)
    \/ \E w \in Workers : processCtxDone(w)
    \/ \E w \in Workers : processReceive(w)
    \/ \E w \in Workers : processReceiveClosed(w)
    \/ \E w \in Workers : processPark(w)
    \/ \E w \in Workers : processTaskDone(w)
    \/ \E w \in Workers : processHookDone(w)
    \/ \E w \in Workers : WorkerDone(w)
    \/ ParentCancel

Spec == Init /\ [][Next]_vars

\* Every goroutine that can take a step is eventually scheduled; nobody is
\* obliged to call Submit or Stop, nor to cancel the context.
Fairness ==
    /\ \A c \in Callers : WF_vars(CallerStep(c))
    /\ \A w \in 1..MaxWorkers : WF_vars(w \in Workers /\ WorkerStep(w))

FairSpec == Init /\ [][Next]_vars /\ Fairness

\* The pool with task bodies that may call Submit on it.
ReentrantNext ==
    \/ Next
    \/ \E w \in Workers : taskCallsSubmit(w)
    \/ \E w \in Workers : taskSubmitRLock(w)
    \/ \E w \in Workers : taskSubmitSend(w)
    \/ \E w \in Workers : taskSubmitReturn(w)

ReentrantSpec == Init /\ [][ReentrantNext]_vars

\* The pool as NewWorkerPool builds it from any worker count.
UncheckedSpec == InitAnyCount /\ [][Next]_vars

\* ================================================================== claims

StopPcs == {"t_lock", "t_pending", "t_cancel", "t_close", "t_wait", "t_ret"}
SubmitPcs == {"s_rlock", "s_send", "s_ret"}

\* The tasks a successful send has put into the pool.
Accepted == {t \in Tasks : tstate[t] \in {"queued", "running", "hook", "done"}}

\* What Stop acts on.
poolState == <<taskQueue, closed, isStopped, ctxDone, workerWaitGroup, wpc,
               cancelCount, closeCount>>

\* C1: when a call of Stop is about to return, every task whose Submit had
\* returned nil before that Stop was called has been executed to completion.
C1_StopDrainsAccepted ==
    \A c \in Callers :
        pc[c] = "t_ret" => \A t \in stopSnap[c] : tstate[t] = "done"

\* C2: no call of Stop returns while a worker is still running: when a Stop
\* (first, later or concurrent) is about to return, every worker goroutine has
\* ended, so no task body and no hook is executing.
C2_StopWaitsForWorkers ==
    \A c \in Callers :
        pc[c] = "t_ret" =>
            /\ \A w \in Workers : wpc[w] = "exited"
            /\ \A t \in Tasks : tstate[t] \notin {"running", "hook"}

\* C2 witness: a Stop that closed the queue of a two-worker pool is about to
\* return after a task was run.
C2_Witness ==
    \E c \in Callers :
        /\ pc[c] = "t_ret"
        /\ numOfWorkers = 2
        /\ ~stopReturned
        /\ \E t \in Tasks : tstate[t] = "done"

\* C3: once isStopped is true no step enqueues or hands over a task, and a
\* Submit that started after some Stop had returned, once past RLock, is
\* returning ErrPoolStopped, whatever the queue holds.
C3_StoppedRejection ==
    [][ /\ isStopped =>
            /\ acceptOrder' = acceptOrder
            /\ Len(taskQueue') <= Len(taskQueue)
        /\ \A c \in Callers :
            (afterStop'[c] /\ pc'[c] # "s_rlock") =>
                (pc'[c] = "s_ret" /\ cres'[c] = ErrPoolStopped)
      ]_vars

\* C3 witness: a Submit started after Stop returned is rejected with
\* ErrPoolStopped while the queue is full of abandoned tasks.
C3_Witness ==
    \E c \in Callers :
        /\ pc[c] = "s_ret"
        /\ afterStop[c]
        /\ cres[c] = ErrPoolStopped
        /\ queueSize >= 1
        /\ Len(taskQueue) = queueSize

C5_SubmitNeverWaitsForWorkers ==
    \A c \in Callers :
        pc[c] = "s_rlock" =>
            ~(\E d \in Callers :
                 /\ pc[d] = "t_wait"
                 /\ mu.writer = d
                 /\ \E w \in Workers : wpc[w] \in {"task", "hook"})

\* C6: in a fair execution in which Stop is never called, every task whose
\* Submit returned nil is eventually executed to completion, whether or not
\* the context given to NewWorkerPool is cancelled.
C6_AcceptedEventuallyExecuted ==
    \A t \in Tasks :
        (t \in nilReturned) ~> (tstate[t] = "done" \/ stopCalls > 0)

\* C7: Stop is idempotent: isStopped never goes back to false, p.cancel() is
\* called at most once, the queue is closed at most once (no panic), every
\* Stop returns nil, and a Stop that finds the pool stopped changes nothing
\* of the pool.
C7_IdempotentStop ==
    [][ /\ isStopped => isStopped'
        /\ cancelCount' <= 1
        /\ closeCount' <= 1
        /\ panicked' = NoPanic
        /\ \A c \in Callers :
            /\ pc'[c] = "t_ret" => cres'[c] = Nil
            /\ (pc[c] = "t_pending" /\ pc'[c] # "t_pending" /\ isStopped) =>
                   (pc'[c] = "t_ret" /\ poolState' = poolState)
      ]_vars

\* C7 witness: a second Stop, called after the first had returned, is about
\* to return; the queue was closed once.
C7_Witness ==
    \E c \in Callers :
        /\ pc[c] = "t_ret"
        /\ stopReturned
        /\ stopCalls = 2
        /\ closeCount = 1
        /\ cancelCount = 1

\* C8: under fair scheduling every call of Stop eventually returns, whatever
\* the worker count, the queue contents, the concurrent callers, and whether
\* or not the construction context was cancelled.
C8_StopTerminates ==
    \A c \in Callers : (pc[c] \in StopPcs) ~> (pc[c] = "idle")

\* C8 witness: a Stop is about to return on a pool whose construction context
\* was cancelled and whose queue still holds a task.
C8_Witness ==
    \E c \in Callers :
        /\ pc[c] = "t_ret"
        /\ parentCancelled
        /\ taskQueue # <<>>

\* C9: with one worker the tasks start in the order their sends succeeded,
\* and each task's body and hook have finished before the next one starts.
C9_SingleWorkerFIFO ==
    numOfWorkers = 1 =>
        /\ Len(execOrder) <= Len(acceptOrder)
        /\ execOrder = SubSeq(acceptOrder, 1, Len(execOrder))
        /\ \A i \in 1..(Len(execOrder) - 1) : tstate[execOrder[i]] = "done"

\* C9 witness: one worker with a hook has started two tasks that were
\* accepted in the order opposite to the order of their Submit calls.
C9_Witness ==
    /\ numOfWorkers = 1
    /\ afterTaskHook
    /\ acceptOrder = <<2, 1>>
    /\ execOrder = <<2, 1>>
    /\ queueSize = 2

\* C10: every Submit returns one of nil, ErrQueueFull, ErrPoolStopped, there
\* is no panic, and while no Stop was called and at most queueSize Submit
\* calls were made, every Submit returns nil and no Submit in progress is
\* blocked.
C10_ConcurrentSubmit ==
    /\ panicked = NoPanic
    /\ \A c \in Callers :
        /\ pc[c] = "s_ret" => cres[c] \in {Nil, ErrQueueFull, ErrPoolStopped}
        /\ (pc[c] = "s_ret" /\ stopCalls = 0 /\ nextTask - 1 <= queueSize)
              => cres[c] = Nil
        /\ (pc[c] \in SubmitPcs /\ stopCalls = 0)
              => ENABLED (SubmitRLock(c) \/ SubmitSend(c) \/ SubmitReturn(c))

\* C10 witness: two concurrent callers are both returning nil from Submit on
\* a pool of capacity 2 that holds both tasks.
C10_Witness ==
    /\ stopCalls = 0
    /\ queueSize = 2
    /\ Len(taskQueue) = 2
    /\ \A c \in Callers : pc[c] = "s_ret" /\ cres[c] = Nil

\* C11: when a hook is configured, the hook has been invoked exactly once for
\* every task whose body has finished and never for any other task (one that
\* was rejected, is still offered or queued, or is still running), so the
\* number of hook invocations equals the number of finished bodies.
C11_HookCount ==
    afterTaskHook =>
        \A t \in Tasks :
            hookCalls[t] = IF tstate[t] \in {"hook", "done"} THEN 1 ELSE 0

\* C11 witness: with a hook, one task is done with its hook invoked once and
\* another task was rejected by Submit.
C11_Witness ==
    /\ afterTaskHook
    /\ \E t \in Tasks : tstate[t] = "done" /\ hookCalls[t] = 1
    /\ \E t \in Tasks : tstate[t] \in {"rejFull", "rejStopped"}

\* C12: the queue never holds more tasks than the capacity fixed at
\* construction, and no step changes the capacity or the worker count.
C12_QueueBound ==
    [][ /\ Len(taskQueue') <= queueSize'
        /\ queueSize' = queueSize
        /\ numOfWorkers' = numOfWorkers
        /\ DOMAIN wpc' = 1..numOfWorkers
      ]_vars

\* C12 witness: a queue of capacity 2 holds two pending tasks.
C12_Witness ==
    /\ queueSize = 2
    /\ Len(taskQueue) = 2
    /\ ~isStopped

\* C13: cancelling the context given to NewWorkerPool does not stop the pool:
\* the cancellation leaves isStopped, the queue and its open state as they
\* were; while no Stop was called the pool stays not stopped and open, a
\* Submit passes the stopped check, and its send returns nil whenever the
\* queue has a free slot; a later Stop still returns nil.
C13_ParentCancelKeepsPoolOpen ==
    [][ /\ (parentCancelled' /\ ~parentCancelled) =>
              /\ isStopped' = isStopped
              /\ closed' = closed
              /\ taskQueue' = taskQueue
        /\ (parentCancelled' /\ stopCalls' = 0) => (~isStopped' /\ ~closed')
        /\ \A c \in Callers :
            /\ (parentCancelled /\ stopCalls = 0
                  /\ pc[c] = "s_rlock" /\ pc'[c] # "s_rlock")
                  => pc'[c] = "s_send"
            /\ (parentCancelled /\ stopCalls = 0
                  /\ pc[c] = "s_send" /\ pc'[c] = "s_ret"
                  /\ Len(taskQueue) < queueSize)
                  => cres'[c] = Nil
            /\ (parentCancelled' /\ pc'[c] = "t_ret") => cres'[c] = Nil
      ]_vars

\* C13 witness: the construction context was cancelled, every worker has
\* exited, no Stop was called, and a Submit is returning nil.
C13_Witness ==
    /\ parentCancelled
    /\ stopCalls = 0
    /\ \A w \in Workers : wpc[w] = "exited"
    /\ \E c \in Callers : pc[c] = "s_ret" /\ cres[c] = Nil

\* C14: no Submit sends on a closed queue: the send-on-closed-channel panic
\* is unreachable, a closed queue implies isStopped, a Submit between its
\* check of the flag and its send holds the read lock on a pool that is not
\* stopped, and a Stop past the flag check holds the lock with no reader in.
C14_SubmitStopExclusion ==
    /\ panicked # "send on closed channel"
    /\ closed => isStopped
    /\ \A c \in Callers :
        /\ pc[c] = "s_send" => (~isStopped /\ ~closed /\ c \in mu.readers)
        /\ pc[c] \in {"t_cancel", "t_close", "t_wait", "t_ret"} =>
               (mu.writer = c /\ mu.readers = {})

\* C14 witness: a Stop has announced itself and is held back by a Submit that
\* has checked the flag and has not sent yet.
C14_Witness ==
    \E c, d \in Callers :
        /\ pc[c] = "s_send"
        /\ pc[d] = "t_pending"
        /\ mu.writer = d

\* C15: a Submit called by a task body while a Stop is in progress does not
\* deadlock the shutdown: no state has a Stop waiting in Wait for the workers
\* while a worker waits in that Submit for the lock the Stop holds.
C15_NoStopWaitsOnLockedWorker ==
    \A w \in Workers :
        wpc[w] = "in_rlock" =>
            ~(\E d \in Callers : pc[d] = "t_wait" /\ mu.writer = d)

\* The workers that hold task t (its body or its hook is running there).
Holders(t) == {w \in Workers : wpc[w] \in {"task", "hook"} /\ wtask[w] = t}

\* C16: every accepted task is dequeued by at most one worker and its body is
\* run at most once; a dequeued task is never back in the queue; and every
\* task that is run was accepted by a Submit that returns nil.
C16_ExclusiveOwnership ==
    /\ \A i, j \in 1..Len(execOrder) : execOrder[i] = execOrder[j] => i = j
    /\ \A i, j \in 1..Len(taskQueue) : taskQueue[i] = taskQueue[j] => i = j
    /\ \A i \in 1..Len(execOrder) :
          /\ \A j \in 1..Len(taskQueue) : taskQueue[j] # execOrder[i]
          /\ \E k \in 1..Len(acceptOrder) : acceptOrder[k] = execOrder[i]
          /\ \/ execOrder[i] \in nilReturned
             \/ \E c \in Callers : /\ pc[c] = "s_ret"
                                   /\ ctask[c] = execOrder[i]
                                   /\ cres[c] = Nil
    /\ \A t \in Tasks :
          /\ Cardinality(Holders(t)) =
                IF tstate[t] \in {"running", "hook"} THEN 1 ELSE 0
          /\ tstate[t] \in {"running", "hook", "done"} <=>
                \E i \in 1..Len(execOrder) : execOrder[i] = t

\* C16 witness: two workers hold the bodies of two different tasks.
C16_Witness ==
    /\ numOfWorkers = 2
    /\ Len(execOrder) = 2
    /\ \A w \in Workers : wpc[w] = "task"
    /\ wtask[1] # wtask[2]

\* The tasks a Submit has turned down.
Rejected == {t \in Tasks : tstate[t] \in {"rejFull", "rejStopped"}}

\* C17: a Submit that returns ErrQueueFull or ErrPoolStopped has no effect: no
\* step of the call changes the queue, the stopped flag, the cancellation
\* signal or a worker's state, and the rejected task stays rejected: it is
\* never queued, handed to a worker or executed.
C17_RejectedSubmitNoEffect ==
    [][ /\ \A c \in Callers :
              ( /\ pc'[c] # pc[c]
                /\ pc'[c] \in SubmitPcs \/ pc[c] \in SubmitPcs
                /\ ~(pc[c] = "s_send" /\ cres'[c] = Nil) )
              => /\ poolState' = poolState
                 /\ wtask' = wtask
                 /\ execOrder' = execOrder
                 /\ panicked' = panicked
        /\ \A c \in Callers :
              pc'[c] = "s_ret" /\ cres'[c] # Nil => ctask[c]' \in Rejected'
        /\ \A t \in Rejected' :
              /\ t \in Rejected => tstate'[t] = tstate[t]
              /\ \A i \in 1..Len(taskQueue') : taskQueue'[i] # t
              /\ \A i \in 1..Len(execOrder') : execOrder'[i] # t
              /\ \A i \in 1..Len(acceptOrder') : acceptOrder'[i] # t
              /\ \A w \in Workers : wpc'[w] \in {"task", "hook"} => wtask'[w] # t
              /\ hookCalls'[t] = 0
        /\ Rejected \subseteq Rejected' ]_vars

\* C17 witness: with every call returned and the pool not stopped, one task
\* was rejected for a full queue and another was executed.
C17_Witness ==
    /\ \E t \in Tasks : tstate[t] = "rejFull"
    /\ \E t \in Tasks : tstate[t] = "done"
    /\ \A c \in Callers : pc[c] = "idle"
    /\ ~isStopped

\* The two states of a worker: in the loop of process, or out of it.
RunningPcs == {"select", "parked", "task", "hook"}
ExitedPcs == {"returned", "exited"}

\* C18: a worker leaves the loop only from its select, and only with the
\* context done or the queue closed and empty; a worker that holds a task
\* keeps it through the body and then the hook (when one is set) before it is
\* back at the select, cancellation or not; a worker that has left never
\* comes back; and while the pool is not stopped and the construction
\* context is not cancelled every worker is in the loop.
C18_WorkerExit ==
    [][ /\ \A w \in Workers :
            /\ (wpc[w] \in RunningPcs /\ wpc'[w] \in ExitedPcs) =>
                  /\ wpc[w] \in {"select", "parked"}
                  /\ ctxDone' \/ (closed' /\ taskQueue' = <<>>)
            /\ wpc[w] = "task" =>
                  /\ wpc'[w] \in {"task", IF afterTaskHook THEN "hook"
                                                           ELSE "select"}
                  /\ wpc'[w] # "select" => wtask'[w] = wtask[w]
                  /\ wpc'[w] = "select" => tstate'[wtask[w]] = "done"
            /\ wpc[w] = "hook" =>
                  /\ wpc'[w] \in {"hook", "select"}
                  /\ wpc'[w] = "hook" => wtask'[w] = wtask[w]
                  /\ wpc'[w] = "select" => tstate'[wtask[w]] = "done"
            /\ wpc[w] \in ExitedPcs => wpc'[w] \in ExitedPcs
            /\ wpc[w] = "exited" => wpc'[w] = "exited"
            /\ wpc'[w] \in RunningPcs \cup ExitedPcs
        /\ (~isStopped' /\ ~parentCancelled') =>
              \A w \in Workers : wpc'[w] \in RunningPcs
      ]_vars

\* C18 witness: of two workers one has exited on the cancellation raised by
\* Stop while the other, which held a task then, is running that task's hook.
C18_Witness ==
    /\ numOfWorkers = 2
    /\ ctxDone
    /\ isStopped
    /\ \E w, v \in Workers : wpc[w] = "exited" /\ wpc[v] = "hook"

\* C19: once a call of Stop has returned, no step starts a task body, invokes
\* a hook, changes the queue, clears the stopped flag or changes anything
\* else of the pool; every Submit that returns, returns ErrPoolStopped, and
\* every further Stop returns nil.
C19_InertAfterStop ==
    [][ stopReturned =>
          /\ stopReturned'
          /\ isStopped /\ isStopped'
          /\ taskQueue' = taskQueue
          /\ execOrder' = execOrder
          /\ acceptOrder' = acceptOrder
          /\ hookCalls' = hookCalls
          /\ poolState' = poolState
          /\ wtask' = wtask
          /\ panicked' = NoPanic
          /\ \A t \in Tasks :
                /\ tstate'[t] \notin {"running", "hook"}
                /\ tstate[t] \in {"queued", "done"} => tstate'[t] = tstate[t]
          /\ \A c \in Callers :
                /\ pc'[c] = "s_ret" => cres'[c] = ErrPoolStopped
                /\ pc'[c] \notin {"s_send", "t_cancel", "t_close", "t_wait"}
                /\ pc'[c] = "t_ret" => cres'[c] = Nil
      ]_vars

\* C19 witness: after a Stop returned with a task left in the queue, a Submit
\* was rejected as stopped and a further Stop is about to return.
C19_Witness ==
    /\ stopReturned
    /\ taskQueue # <<>>
    /\ \E t \in Tasks : tstate[t] = "rejStopped"
    /\ \E d \in Callers : pc[d] = "t_ret" /\ cres[d] = Nil

\* C20: NewWorkerPool rejects a worker count of zero or less: there is no
\* pool without workers on which a Submit returns nil.
C20_NoPoolWithoutWorkers ==
    \A c \in Callers :
        (pc[c] = "s_ret" /\ cres[c] = Nil) => numOfWorkers >= 1

\* The tasks whose body or hook is executing.
Executing == {t \in Tasks : tstate[t] \in {"running", "hook"}}

\* C21: the number of tasks whose body or hook is executing never exceeds
\* the worker count; a worker holds one task while it runs a body or a hook
\* and none otherwise, and no two workers hold the same task; with one
\* worker at most one task is executing.
C21_BoundedParallelism ==
    /\ Cardinality(Executing) <= numOfWorkers
    /\ Cardinality(Executing) =
          Cardinality({w \in Workers : wpc[w] \in {"task", "hook"}})
    /\ \A w \in Workers :
          IF wpc[w] \in {"task", "hook"}
          THEN /\ wtask[w] \in Executing
               /\ tstate[wtask[w]] = IF wpc[w] = "task" THEN "running"
                                                       ELSE "hook"
               /\ \A v \in Workers :
                     (v # w /\ wpc[v] \in {"task", "hook"}) =>
                         wtask[v] # wtask[w]
          ELSE wtask[w] = NoTask
    /\ numOfWorkers = 1 => Cardinality(Executing) <= 1

\* C21 witness: the only worker runs a task's body while the other accepted
\* task waits in the queue.
C21_Witness ==
    /\ numOfWorkers = 1
    /\ wpc[1] = "task"
    /\ Len(taskQueue) = 1
    /\ tstate[taskQueue[1]] = "queued"
    /\ ~isStopped

\* C22: on a pool of capacity 0 the queue never holds a task, and the send of
\* a Submit on the pool, not stopped, returns nil exactly when some worker is
\* blocked in its select at that instant, the task going straight to such a
\* worker, which starts its body; otherwise it returns ErrQueueFull.
C22_ZeroCapacityHandOff ==
    [][ queueSize = 0 =>
          /\ taskQueue = <<>> /\ taskQueue' = <<>>
          /\ \A c \in Callers :
                (pc[c] = "s_send" /\ pc'[c] = "s_ret") =>
                    /\ ~isStopped
                    /\ IF \E w \in Workers : wpc[w] = "parked"
                       THEN /\ cres'[c] = Nil
                            /\ \E w \in Workers :
                                  /\ wpc[w] = "parked"
                                  /\ wpc'[w] = "task"
                                  /\ wtask'[w] = ctask[c]
                            /\ tstate'[ctask[c]] = "running"
                       ELSE /\ cres'[c] = ErrQueueFull
                            /\ tstate'[ctask[c]] = "rejFull"
                            /\ wpc' = wpc
      ]_vars

\* C22 witness: on a pool of capacity 0 that is not stopped one task was
\* handed to a waiting worker and a Submit is returning ErrQueueFull while a
\* worker is about to enter its select but is not blocked in it yet.
C22_Witness ==
    /\ queueSize = 0
    /\ stopCalls = 0
    /\ ~parentCancelled
    /\ \E t \in Tasks : tstate[t] \in {"running", "hook", "done"}
    /\ \E c \in Callers : pc[c] = "s_ret" /\ cres[c] = ErrQueueFull
    /\ \E w \in Workers : wpc[w] = "select"

\* The workers whose goroutine has not ended (its deferred Done has not run).
NotExited == {w \in Workers : wpc[w] # "exited"}

\* C23: the wait-group counter, raised once per worker at construction, is
\* lowered by one exactly in the step in which a worker's goroutine ends and
\* is never raised again; it always equals the number of workers that have
\* not ended, is never negative, and is zero exactly when every worker has
\* ended; Stop leaves Wait only at zero.
C23_WaitGroupAccounting ==
    [][ /\ workerWaitGroup' = Cardinality(NotExited')
        /\ workerWaitGroup' >= 0
        /\ workerWaitGroup' <= numOfWorkers
        /\ (workerWaitGroup' = 0) <=> (\A w \in Workers : wpc'[w] = "exited")
        /\ workerWaitGroup' # workerWaitGroup =>
              /\ workerWaitGroup' = workerWaitGroup - 1
              /\ \E w \in Workers :
                    /\ wpc[w] = "returned"
                    /\ wpc'[w] = "exited"
                    /\ \A v \in Workers \ {w} : wpc'[v] = wpc[v]
        /\ \A w \in Workers :
              (wpc[w] # "exited" /\ wpc'[w] = "exited") =>
                  workerWaitGroup' = workerWaitGroup - 1
        /\ \A c \in Callers :
              (pc[c] = "t_wait" /\ pc'[c] = "t_ret") => workerWaitGroup = 0
      ]_vars

\* C23 witness: a Stop waits at the barrier of a two-worker pool whose
\* counter is 1: one worker has ended and the other is still running a task.
C23_Witness ==
    /\ numOfWorkers = 2
    /\ workerWaitGroup = 1
    /\ \E w, v \in Workers : wpc[w] = "exited" /\ wpc[v] = "task"
    /\ \E c \in Callers : pc[c] = "t_wait"

====
